---- MODULE Spec2Model ----
(***************************************************************************)
(* RupeeWise asset ledger (src/index.tsx): the App component's two         *)
(* collections (transactions, goals), the entry form and the goal modal    *)
(* that feed them, the persistence effect that mirrors both collections    *)
(* to localStorage, and the values derived from them.                      *)
(*                                                                         *)
(* Text typed by the user is a sequence of one-character strings, so that  *)
(* parseFloat and Number.prototype.toString are computed character by      *)
(* character.  The input alphabet has no "." and no exponent: every        *)
(* finite number of the model is an integer.                               *)
(***************************************************************************)
EXTENDS Integers, Sequences, FiniteSets, TLC

VARIABLES
    pc,             \* "boot" (page not mounted), "running", "crashed"
    storage,        \* localStorage: key -> stored text
    transactions,   \* useState<Transaction[]>
    goals,          \* useState<SavingGoal[]>
    description,    \* entry form: memo text
    amount,         \* entry form: text of the number input
    type,           \* entry form: 'income' | 'expense'
    category,       \* entry form: selected category
    showForm,       \* entry modal rendered
    showGoalModal,  \* goal modal rendered
    editingGoal,    \* goal being edited, or NoGoal
    goalName, goalTarget, goalCurrent, goalColor,
    uuids,          \* number of identifiers crypto.randomUUID has issued
    now,            \* the wall clock read by new Date()
    funded,         \* number of contributions addGoalFunds has accepted
    opens,          \* number of times the goal modal has been opened
    otherTab,       \* the App of a second tab on the same localStorage
    last            \* the store operation that ran last, with its input

vars == <<pc, storage, transactions, goals, description, amount, type, category,
          showForm, showGoalModal, editingGoal, goalName, goalTarget,
          goalCurrent, goalColor, uuids, now, funded, opens, otherTab, last>>

formVars == <<description, amount, type, category, showForm>>
modalVars == <<showGoalModal, editingGoal, goalName, goalTarget, goalCurrent, goalColor>>

----------------------------------------------------------------------------
(* Bounds of the model *)

\* handleAdd records a transaction while fewer identifiers than this were issued
MaxUuid == 2
\* contributions accepted in one behaviour
MaxFunds == 2
\* contributions accepted in a behaviour that also uses the goal modal
MaxModalFunds == 1
\* transactions recorded, and contributions accepted, while two tabs are open
MaxTabUuid == 1
MaxTabFunds == 1
\* times the goal modal is opened in one behaviour
MaxOpens == 1
\* last instant of the wall clock
MaxClock == 1

----------------------------------------------------------------------------
(* JavaScript numbers: finite integers, NaN, +-Infinity; null is what JSON  *)
(* gives back for a number it could not write.                              *)

Num(n) == [t |-> "number", v |-> n]
NaN == [t |-> "NaN", v |-> 0]
Infinity(sign) == [t |-> "Infinity", v |-> sign]
Null == [t |-> "null", v |-> 0]

\* ToNumber on a number-or-null operand: null converts to +0
ToNumber(x) == IF x.t = "null" THEN Num(0) ELSE x

\* a + b
Add(a, b) ==
    LET x == ToNumber(a)
        y == ToNumber(b)
    IN  IF x.t = "NaN" \/ y.t = "NaN" THEN NaN
        ELSE IF x.t = "Infinity" /\ y.t = "Infinity"
             THEN IF x.v = y.v THEN x ELSE NaN
        ELSE IF x.t = "Infinity" THEN x
        ELSE IF y.t = "Infinity" THEN y
        ELSE Num(x.v + y.v)

\* a - b
Sub(a, b) ==
    LET y == ToNumber(b)
    IN  Add(a, IF y.t = "NaN" THEN NaN
               ELSE IF y.t = "Infinity" THEN Infinity(0 - y.v)
               ELSE Num(0 - y.v))

\* a <= b for operands that are not NaN
Leq(a, b) ==
    LET x == ToNumber(a)
        y == ToNumber(b)
    IN  IF x.t = "Infinity" THEN (x.v = -1 \/ (y.t = "Infinity" /\ y.v = 1))
        ELSE IF y.t = "Infinity" THEN y.v = 1
        ELSE x.v <= y.v

\* Math.min(a, b)
MathMin(a, b) ==
    LET x == ToNumber(a)
        y == ToNumber(b)
    IN  IF x.t = "NaN" \/ y.t = "NaN" THEN NaN
        ELSE IF Leq(x, y) THEN x ELSE y

\* isNaN(x)
isNaN(x) == ToNumber(x).t = "NaN"

\* truthiness of a number: NaN, 0 and null are falsy
Truthy(x) == ~(x.t = "NaN" \/ x.t = "null" \/ (x.t = "number" /\ x.v = 0))

\* x || 0
OrZero(x) == IF Truthy(x) THEN x ELSE Num(0)

----------------------------------------------------------------------------
(* Text <-> number *)

Digits == <<"0", "1", "2", "3", "4", "5", "6", "7", "8", "9">>

IsDigit(c) == \E i \in 1..10 : Digits[i] = c

DigitVal(c) == (CHOOSE i \in 1..10 : Digits[i] = c) - 1

InfinityText == <<"I", "n", "f", "i", "n", "i", "t", "y">>

HasPrefix(s, p) == Len(s) >= Len(p) /\ SubSeq(s, 1, Len(p)) = p

RECURSIVE TrimStart(_)
TrimStart(s) == IF s # <<>> /\ Head(s) = " " THEN TrimStart(Tail(s)) ELSE s

\* the longest prefix of s made of digits
RECURSIVE DigitPrefix(_)
DigitPrefix(s) ==
    IF s # <<>> /\ IsDigit(Head(s)) THEN <<Head(s)>> \o DigitPrefix(Tail(s)) ELSE <<>>

RECURSIVE DigitsValue(_)
DigitsValue(ds) ==
    IF ds = <<>> THEN 0
    ELSE 10 * DigitsValue(SubSeq(ds, 1, Len(ds) - 1)) + DigitVal(ds[Len(ds)])

\* parseFloat(text): leading blanks skipped, an optional sign, then "Infinity"
\* or the longest run of digits; NaN when there is neither
parseFloat(text) ==
    LET s    == TrimStart(text)
        neg  == s # <<>> /\ Head(s) = "-"
        body == IF s # <<>> /\ (Head(s) = "-" \/ Head(s) = "+") THEN Tail(s) ELSE s
        ds   == DigitPrefix(body)
    IN  IF HasPrefix(body, InfinityText) THEN Infinity(IF neg THEN -1 ELSE 1)
        ELSE IF ds = <<>> THEN NaN
        ELSE Num(IF neg THEN 0 - DigitsValue(ds) ELSE DigitsValue(ds))

RECURSIVE NatText(_)
NatText(n) ==
    IF n < 10 THEN <<Digits[n + 1]>> ELSE NatText(n \div 10) \o <<Digits[(n % 10) + 1]>>

\* Number.prototype.toString, of a number (null has no toString: see
\* openGoalModalEdit)
toString(x) ==
    IF x.t = "NaN" THEN <<"N", "a", "N">>
    ELSE IF x.t = "Infinity"
         THEN (IF x.v < 0 THEN <<"-">> ELSE <<>>) \o InfinityText
    ELSE IF x.v < 0 THEN <<"-">> \o NatText(0 - x.v)
    ELSE NatText(x.v)

\* <input type="number">: the value the element reports is "" unless the text
\* is a valid floating-point number (an optional "-", then digits)
IsValidNumberText(text) ==
    LET body == IF text # <<>> /\ Head(text) = "-" THEN Tail(text) ELSE text
    IN  body # <<>> /\ DigitPrefix(body) = body

\* what an <input type="number"> reports for the text typed into it
NumberInputValue(raw) == IF IsValidNumberText(raw) THEN raw ELSE <<>>

\* the `required` attribute of a text input (free text is an opaque string)
RequiredText(value) == value # ""

\* the `required` attribute of a number input
RequiredNumber(value) == value # <<>>

----------------------------------------------------------------------------
(* Program constants *)

CATEGORIES ==
    [income  |-> <<"Salary", "Freelance", "Dividends", "Gift", "Other">>,
     expense |-> <<"Groceries", "Rent/Bills", "Transport", "Dining", "Shopping",
                   "Healthcare", "UPI/Online", "Education", "Investment">>]

GOAL_COLORS == <<"#8b5cf6", "#3b82f6", "#10b981", "#f59e0b", "#f43f5e", "#ec4899">>

TxKey == "rupee-wise-data-v2"
GoalsKey == "rupee-wise-goals"
Keys == {TxKey, GoalsKey}

SeedGoals ==
    << [id |-> 1, name |-> "Emergency Fund", target |-> Num(500000),
        current |-> Num(125000), color |-> "#8b5cf6"],
       [id |-> 2, name |-> "New Car", target |-> Num(1200000),
        current |-> Num(450000), color |-> "#3b82f6"] >>

\* useState<SavingGoal | null>(null)
NoGoal == [id |-> 0, name |-> "", target |-> Null, current |-> Null, color |-> ""]

\* the k-th identifier of crypto.randomUUID: fresh, and never "1" or "2"
randomUUID(k) == 10 + k

IssuedIds == {randomUUID(k) : k \in 0..(uuids - 1)}

----------------------------------------------------------------------------
(* localStorage and JSON *)

\* getItem returns null
Absent == [kind |-> "null", items |-> <<>>]
\* the empty string
EmptyText == [kind |-> "empty", items |-> <<>>]
\* text that is not JSON
Garbage == [kind |-> "garbage", items |-> <<>>]
\* JSON of something that is no array, such as {}
WrongShape == [kind |-> "object", items |-> <<>>]

\* JSON writes a number that is not finite as null
JsonNumber(x) == IF x.t = "number" THEN x ELSE Null

\* JSON.stringify(transactions)
stringifyTransactions(txs) ==
    [kind |-> "array",
     items |-> [i \in 1..Len(txs) |-> [txs[i] EXCEPT !.amount = JsonNumber(@)]]]

\* JSON.stringify(goals)
stringifyGoals(gls) ==
    [kind |-> "array",
     items |-> [i \in 1..Len(gls) |->
                   [gls[i] EXCEPT !.target = JsonNumber(@), !.current = JsonNumber(@)]]]

\* `saved ? ... : ...`: null and "" are falsy
SavedTruthy(saved) == saved.kind # "null" /\ saved.kind # "empty"

\* JSON.parse(saved) throws a SyntaxError
ParseThrows(saved) == saved.kind = "garbage"

\* JSON.parse(saved) of an array: the records, numbers and nulls as written
ParsedItems(saved) == saved.items

\* a faulty initializer: it reads a key nothing was stored under
loadTransactionsWrongKey(saved) == <<>>

\* the transactions initializer
loadTransactions(saved) == IF SavedTruthy(saved) THEN ParsedItems(saved) ELSE <<>>

\* a faulty initializer: an empty stored list counts as nothing stored
loadGoalsSeedWhenEmpty(saved) ==
    IF SavedTruthy(saved) /\ ParsedItems(saved) # <<>> THEN ParsedItems(saved) ELSE SeedGoals

\* the goals initializer
loadGoals(saved) == IF SavedTruthy(saved) THEN ParsedItems(saved) ELSE SeedGoals

\* the persistence effect: both keys are written
PersistEffect(txs, gls) ==
    storage' = [k \in Keys |->
                  IF k = TxKey THEN stringifyTransactions(txs) ELSE stringifyGoals(gls)]

----------------------------------------------------------------------------
(* Derived values *)

RECURSIVE SumAmountsAll(_, _)
\* a faulty total: the filter on the kind is missing
SumAmountsAll(txs, kind) ==
    IF txs = <<>> THEN Num(0)
    ELSE Add(SumAmountsAll(SubSeq(txs, 1, Len(txs) - 1), kind), txs[Len(txs)].amount)

RECURSIVE SumAmounts(_, _)
\* transactions.filter(t => t.type === kind).reduce((s, t) => s + t.amount, 0)
SumAmounts(txs, kind) ==
    IF txs = <<>> THEN Num(0)
    ELSE LET init == SubSeq(txs, 1, Len(txs) - 1)
             t    == txs[Len(txs)]
         IN  IF t.type = kind THEN Add(SumAmounts(init, kind), t.amount)
             ELSE SumAmounts(init, kind)

totalIncome == SumAmounts(transactions, "income")
totalExpense == SumAmounts(transactions, "expense")
balance == Sub(totalIncome, totalExpense)

\* Dates.  An instant is counted in whole days of local time from the day the
\* clock starts, 1 January 2023; new Date(t.date) of the ISO text that
\* new Date().toISOString() wrote is the same instant.
Epoch == [year |-> 2023, month |-> 1, day |-> 1]

MonthShort == <<"Jan", "Feb", "Mar", "Apr", "May", "Jun",
                "Jul", "Aug", "Sep", "Oct", "Nov", "Dec">>

IsLeap(y) == (y % 4 = 0 /\ y % 100 # 0) \/ y % 400 = 0

DaysInYear(y) == IF IsLeap(y) THEN 366 ELSE 365

DaysInMonth(y, m) ==
    IF m = 2 THEN (IF IsLeap(y) THEN 29 ELSE 28)
    ELSE IF m \in {4, 6, 9, 11} THEN 30 ELSE 31

RECURSIVE FromMonth(_, _, _)
\* the date n days after the first of month m of year y, n >= 0 within the year
FromMonth(y, m, n) ==
    IF n < DaysInMonth(y, m) THEN [year |-> y, month |-> m, day |-> n + 1]
    ELSE FromMonth(y, m + 1, n - DaysInMonth(y, m))

RECURSIVE FromYear(_, _)
\* the date n days after 1 January of year y
FromYear(y, n) ==
    IF n < 0 THEN FromYear(y - 1, n + DaysInYear(y - 1))
    ELSE IF n >= DaysInYear(y) THEN FromYear(y + 1, n - DaysInYear(y))
    ELSE FromMonth(y, 1, n)

\* the calendar date of an instant
CivilDate(instant) == FromYear(Epoch.year, instant)

\* toLocaleDateString('en-IN', { day: 'numeric', month: 'short' }): the day of
\* the month and the short month name; the year is not part of the text
DayLabel(instant) ==
    LET d == CivilDate(instant)
    IN  [day |-> d.day, month |-> MonthShort[d.month]]

\* Array.from({ length: 7 }, (_, i) => { d.setDate(d.getDate() - (6 - i)); ... })
last7Days(today) == [i \in 1..7 |-> DayLabel(today - (7 - i))]

RECURSIVE SumLabel(_, _, _)
\* transactions.filter(t => t.type === kind && <label of t.date> === label)
\*             .reduce((s, t) => s + t.amount, 0)
SumLabel(txs, kind, label) ==
    IF txs = <<>> THEN Num(0)
    ELSE LET init == SubSeq(txs, 1, Len(txs) - 1)
             t    == txs[Len(txs)]
         IN  IF t.type = kind /\ DayLabel(t.date) = label
             THEN Add(SumLabel(init, kind, label), t.amount)
             ELSE SumLabel(init, kind, label)

\* the line chart computed on the day today
lineData(txs, today) ==
    [labels  |-> last7Days(today),
     inflow  |-> [i \in 1..7 |-> SumLabel(txs, "income", last7Days(today)[i])],
     outflow |-> [i \in 1..7 |-> SumLabel(txs, "expense", last7Days(today)[i])]]

\* A Map is the sequence of its entries in insertion order.

\* a faulty lookup: no key is ever found
MapGetMissing(map, key) == Null

\* dataMap.get(key); Null stands for undefined, as falsy as null is
MapGet(map, key) ==
    IF \E i \in 1..Len(map) : map[i].key = key
    THEN map[CHOOSE i \in 1..Len(map) : map[i].key = key].value
    ELSE Null

\* dataMap.set(key, value): a key already present keeps its place
MapSet(map, key, value) ==
    IF \E i \in 1..Len(map) : map[i].key = key
    THEN [i \in 1..Len(map) |->
             IF map[i].key = key THEN [key |-> key, value |-> value] ELSE map[i]]
    ELSE Append(map, [key |-> key, value |-> value])

RECURSIVE dataMap(_, _)
\* transactions.filter(t => t.type === type).forEach(t =>
\*     dataMap.set(t.category, (dataMap.get(t.category) || 0) + t.amount))
dataMap(txs, kind) ==
    IF txs = <<>> THEN <<>>
    ELSE LET before == dataMap(SubSeq(txs, 1, Len(txs) - 1), kind)
             t      == txs[Len(txs)]
         IN  IF t.type = kind
             THEN MapSet(before, t.category,
                         Add(OrZero(MapGet(before, t.category)), t.amount))
             ELSE before

\* the doughnut chart of the kind the entry form is set to
doughnutData(txs, kind) ==
    LET map == dataMap(txs, kind)
    IN  [labels |-> [i \in 1..Len(map) |-> map[i].key],
         data   |-> [i \in 1..Len(map) |-> map[i].value]]

\* the integer nearest to n / d, a half going up as Math.round takes it
RoundHalfUp(n, d) ==
    IF d > 0 THEN (2 * n + d) \div (2 * d) ELSE (d - 2 * n) \div (-2 * d)

\* Math.round((a / b) * 100), the quotient taken exactly
RoundedPercent(a, b) ==
    LET x == ToNumber(a)
        y == ToNumber(b)
        sign(n) == IF n < 0 THEN -1 ELSE 1
    IN  IF x.t = "NaN" \/ y.t = "NaN" THEN NaN
        ELSE IF x.t = "Infinity"
             THEN IF y.t = "Infinity" THEN NaN ELSE Infinity(x.v * sign(y.v))
        ELSE IF y.t = "Infinity" THEN Num(0)
        ELSE IF y.v = 0
             THEN IF x.v = 0 THEN NaN ELSE Infinity(sign(x.v))
        ELSE Num(RoundHalfUp(100 * x.v, y.v))

\* the number in front of "% PROGRESS" on the card of a goal
progressPercent(goal) == RoundedPercent(goal.current, goal.target)

----------------------------------------------------------------------------
(* Initial state: the page is not mounted yet; localStorage holds nothing,  *)
(* or text the program did not write.                                       *)

\* last: the name of the operation and whether it took effect (a record was
\* added, found or changed; the page mounted)
NoOp == [op |-> "none", ok |-> FALSE]

Op(name, ok) == [op |-> name, ok |-> ok]

InitialTxTexts == {Absent, EmptyText, Garbage, WrongShape}
InitialGoalTexts == {Absent, EmptyText, Garbage}

\* the state of an App that is not mounted yet
Unmounted ==
    [pc |-> "boot", transactions |-> <<>>, goals |-> <<>>,
     description |-> "", amount |-> <<>>, type |-> "expense",
     category |-> CATEGORIES.expense[1], showForm |-> FALSE,
     showGoalModal |-> FALSE, editingGoal |-> NoGoal, goalName |-> "",
     goalTarget |-> <<>>, goalCurrent |-> <<>>, goalColor |-> GOAL_COLORS[1]]

Init ==
    /\ pc = "boot"
    /\ storage \in {f \in [Keys -> InitialTxTexts] : f[GoalsKey] \in InitialGoalTexts}
    /\ transactions = <<>>
    /\ goals = <<>>
    /\ description = ""
    /\ amount = <<>>
    /\ type = "expense"
    /\ category = CATEGORIES.expense[1]
    /\ showForm = FALSE
    /\ showGoalModal = FALSE
    /\ editingGoal = NoGoal
    /\ goalName = ""
    /\ goalTarget = <<>>
    /\ goalCurrent = <<>>
    /\ goalColor = GOAL_COLORS[1]
    /\ uuids = 0
    /\ now = 0
    /\ funded = 0
    /\ opens = 0
    /\ otherTab = Unmounted
    /\ last = NoOp

----------------------------------------------------------------------------
(* Mounting the App: (re)loading the page *)

\* the first render throws: a useState initializer's JSON.parse, or
\* transactions.filter on a value that is no array
MountThrows ==
    \/ (SavedTruthy(storage[TxKey]) /\ ParseThrows(storage[TxKey]))
    \/ (SavedTruthy(storage[GoalsKey]) /\ ParseThrows(storage[GoalsKey]))
    \/ (SavedTruthy(storage[TxKey]) /\ storage[TxKey].kind = "object")

loadSnapshot ==
    /\ pc \in {"boot", "running"}
    /\ IF MountThrows
       THEN /\ pc' = "crashed"
            /\ last' = Op("loadSnapshot", FALSE)
            /\ UNCHANGED <<storage, transactions, goals, formVars, modalVars>>
       ELSE /\ pc' = "running"
            /\ transactions' = loadTransactions(storage[TxKey])
            /\ goals' = loadGoals(storage[GoalsKey])
            /\ description' = ""
            /\ amount' = <<>>
            /\ type' = "expense"
            /\ category' = CATEGORIES.expense[1]
            /\ showForm' = FALSE
            /\ showGoalModal' = FALSE
            /\ editingGoal' = NoGoal
            /\ goalName' = ""
            /\ goalTarget' = <<>>
            /\ goalCurrent' = <<>>
            /\ goalColor' = GOAL_COLORS[1]
            /\ PersistEffect(transactions', goals')
            /\ last' = Op("loadSnapshot", TRUE)
    /\ UNCHANGED <<uuids, now, funded, opens, otherTab>>

\* time passes
Tick ==
    /\ now < MaxClock
    /\ now' = now + 1
    /\ UNCHANGED <<pc, storage, transactions, goals, formVars, modalVars, uuids, funded, opens, otherTab, last>>

\* the user turns to the other tab.  Each tab is an App of its own, with its
\* own state; localStorage is the one thing the two share, and no tab
\* listens to the other's writes.
SwitchTab ==
    /\ otherTab' =
          [pc |-> pc, transactions |-> transactions, goals |-> goals,
           description |-> description, amount |-> amount, type |-> type,
           category |-> category, showForm |-> showForm,
           showGoalModal |-> showGoalModal, editingGoal |-> editingGoal,
           goalName |-> goalName, goalTarget |-> goalTarget,
           goalCurrent |-> goalCurrent, goalColor |-> goalColor]
    /\ pc' = otherTab.pc
    /\ transactions' = otherTab.transactions
    /\ goals' = otherTab.goals
    /\ description' = otherTab.description
    /\ amount' = otherTab.amount
    /\ type' = otherTab.type
    /\ category' = otherTab.category
    /\ showForm' = otherTab.showForm
    /\ showGoalModal' = otherTab.showGoalModal
    /\ editingGoal' = otherTab.editingGoal
    /\ goalName' = otherTab.goalName
    /\ goalTarget' = otherTab.goalTarget
    /\ goalCurrent' = otherTab.goalCurrent
    /\ goalColor' = otherTab.goalColor
    /\ UNCHANGED <<storage, uuids, now, funded, opens, last>>

\* the days on which the page is looked at again
ClockDays == {2, 9, 365}

\* the page is left alone until the day day.  Nothing is rendered anew:
\* lineData is a useMemo on [transactions] and keeps the value it has.
PassDays(day) ==
    /\ day > now
    /\ now' = day
    /\ last' = Op("PassDays", TRUE)
    /\ UNCHANGED <<pc, storage, transactions, goals, formVars, modalVars, uuids, funded, opens, otherTab>>

----------------------------------------------------------------------------
(* The entry form *)

ledgerFrame == <<pc, storage, transactions, goals, modalVars, uuids, now, funded, opens, otherTab, last>>

\* NEW ENTRY
OpenForm ==
    /\ pc = "running" /\ ~showForm
    /\ showForm' = TRUE
    /\ UNCHANGED <<description, amount, type, category>>
    /\ UNCHANGED ledgerFrame

\* the X of the entry modal
CloseForm ==
    /\ pc = "running" /\ showForm
    /\ showForm' = FALSE
    /\ UNCHANGED <<description, amount, type, category>>
    /\ UNCHANGED ledgerFrame

\* a faulty toggle: the kind changes and the category stays
SetTypeKeepCategory(kind) ==
    /\ pc = "running" /\ showForm
    /\ type' = kind
    /\ UNCHANGED <<description, amount, category, showForm>>
    /\ UNCHANGED ledgerFrame

\* DEBIT / CREDIT: the kind and the first category of that kind, together
SetType(kind) ==
    /\ pc = "running" /\ showForm
    /\ type' = kind
    /\ category' = CATEGORIES[kind][1]
    /\ UNCHANGED <<description, amount, showForm>>
    /\ UNCHANGED ledgerFrame

\* typing into TRANSACTION MEMO
SetDescription(text) ==
    /\ pc = "running" /\ showForm
    /\ description' = text
    /\ UNCHANGED <<amount, type, category, showForm>>
    /\ UNCHANGED ledgerFrame

\* typing into MAGNITUDE, a number input
SetAmount(raw) ==
    /\ pc = "running" /\ showForm
    /\ amount' = NumberInputValue(raw)
    /\ UNCHANGED <<description, type, category, showForm>>
    /\ UNCHANGED ledgerFrame

\* the options the CLASS select offers
SelectOptions == CATEGORIES[type]

\* choosing the i-th option of CLASS
SetCategory(i) ==
    /\ pc = "running" /\ showForm
    /\ i \in 1..Len(SelectOptions)
    /\ category' = SelectOptions[i]
    /\ UNCHANGED <<description, amount, type, showForm>>
    /\ UNCHANGED ledgerFrame

\* the record handleAdd builds
newTx ==
    [id |-> randomUUID(uuids), description |-> description,
     amount |-> parseFloat(amount), type |-> type, category |-> category,
     date |-> now]

\* FINALIZE RECORD: the form is submitted once its required fields are filled
handleAdd ==
    /\ pc = "running" /\ showForm
    /\ RequiredText(description) /\ RequiredNumber(amount)
    /\ uuids < MaxUuid
    /\ IF description = "" \/ amount = <<>>
       THEN /\ last' = Op("handleAdd", FALSE)
            /\ UNCHANGED <<storage, transactions, formVars, uuids>>
       ELSE /\ transactions' = <<newTx>> \o transactions
            /\ description' = ""
            /\ amount' = <<>>
            /\ showForm' = FALSE
            /\ uuids' = uuids + 1
            /\ PersistEffect(transactions', goals)
            /\ last' = Op("handleAdd", TRUE)
            /\ UNCHANGED <<type, category>>
    /\ UNCHANGED <<pc, goals, modalVars, now, funded, opens, otherTab>>

\* a faulty removal, by position: splice(findIndex(...), 1) takes the last
\* record away when the id is not found
RemoveIdSplice(seq, id) ==
    IF \E i \in 1..Len(seq) : seq[i].id = id
    THEN SelectSeq(seq, LAMBDA x : x.id # id)
    ELSE SubSeq(seq, 1, Len(seq) - 1)

\* transactions.filter(x => x.id !== id)
RemoveId(seq, id) == SelectSeq(seq, LAMBDA x : x.id # id)

\* the delete button of the row of transaction id.  Every row ever rendered
\* is a candidate, so the handler also runs for an id no longer present.
deleteTransaction(id) ==
    /\ pc = "running"
    /\ transactions' = RemoveId(transactions, id)
    /\ PersistEffect(transactions', goals)
    /\ last' = Op("deleteTransaction", \E i \in 1..Len(transactions) : transactions[i].id = id)
    /\ UNCHANGED <<pc, goals, formVars, modalVars, uuids, now, funded, opens, otherTab>>

----------------------------------------------------------------------------
(* The goal modal and the goals *)

GoalIds == {goals[i].id : i \in 1..Len(goals)}

goalFrame == <<pc, storage, transactions, goals, formVars, uuids, now, funded, otherTab, last>>

\* NEW STRATEGY (openGoalModal()) 
openGoalModalNew ==
    /\ pc = "running"
    /\ opens < MaxOpens
    /\ opens' = opens + 1
    /\ editingGoal' = NoGoal
    /\ goalName' = ""
    /\ goalTarget' = <<>>
    /\ goalCurrent' = <<"0">>
    /\ goalColor' = GOAL_COLORS[1]
    /\ showGoalModal' = TRUE
    /\ UNCHANGED goalFrame

\* the edit button of goal i (openGoalModal(goal)).  A goal read back from
\* storage may hold null where JSON could not write the number: null.toString()
\* throws, the handler stops there, and the setters already called take effect.
openGoalModalEdit(i) ==
    /\ pc = "running"
    /\ opens < MaxOpens
    /\ opens' = opens + 1
    /\ i \in 1..Len(goals)
    /\ LET goal           == goals[i]
           throwsAtTarget  == goal.target.t = "null"
           throwsAtCurrent == throwsAtTarget \/ goal.current.t = "null"
       IN  /\ editingGoal' = goal
           /\ goalName' = goal.name
           /\ goalTarget' = IF throwsAtTarget THEN goalTarget ELSE toString(goal.target)
           /\ goalCurrent' = IF throwsAtCurrent THEN goalCurrent ELSE toString(goal.current)
           /\ goalColor' = IF throwsAtCurrent THEN goalColor ELSE goal.color
           /\ showGoalModal' = IF throwsAtCurrent THEN showGoalModal ELSE TRUE
    /\ UNCHANGED goalFrame

\* the X of the goal modal
CloseGoalModal ==
    /\ pc = "running" /\ showGoalModal
    /\ showGoalModal' = FALSE
    /\ UNCHANGED <<editingGoal, goalName, goalTarget, goalCurrent, goalColor>>
    /\ UNCHANGED <<opens>> /\ UNCHANGED goalFrame

SetGoalName(text) ==
    /\ pc = "running" /\ showGoalModal
    /\ goalName' = text
    /\ UNCHANGED <<showGoalModal, editingGoal, goalTarget, goalCurrent, goalColor>>
    /\ UNCHANGED <<opens>> /\ UNCHANGED goalFrame

SetGoalTarget(raw) ==
    /\ pc = "running" /\ showGoalModal
    /\ goalTarget' = NumberInputValue(raw)
    /\ UNCHANGED <<showGoalModal, editingGoal, goalName, goalCurrent, goalColor>>
    /\ UNCHANGED <<opens>> /\ UNCHANGED goalFrame

SetGoalCurrent(raw) ==
    /\ pc = "running" /\ showGoalModal
    /\ goalCurrent' = NumberInputValue(raw)
    /\ UNCHANGED <<showGoalModal, editingGoal, goalName, goalTarget, goalColor>>
    /\ UNCHANGED <<opens>> /\ UNCHANGED goalFrame

SetGoalColor(i) ==
    /\ pc = "running" /\ showGoalModal
    /\ i \in 1..Len(GOAL_COLORS)
    /\ goalColor' = GOAL_COLORS[i]
    /\ UNCHANGED <<showGoalModal, editingGoal, goalName, goalTarget, goalCurrent>>
    /\ UNCHANGED <<opens>> /\ UNCHANGED goalFrame

\* the record handleSaveGoal builds
goalData ==
    [id |-> IF editingGoal # NoGoal THEN editingGoal.id ELSE randomUUID(uuids),
     name |-> goalName,
     target |-> parseFloat(goalTarget),
     current |-> OrZero(parseFloat(goalCurrent)),
     color |-> goalColor]

\* a faulty replacement: the old record is filtered out and the new one appended
ReplaceGoalAppend(gls, data) == SelectSeq(gls, LAMBDA g : g.id # data.id) \o <<data>>

\* goals.map(g => g.id === goalData.id ? goalData : g)
ReplaceGoal(gls, data) == [i \in 1..Len(gls) |-> IF gls[i].id = data.id THEN data ELSE gls[i]]

\* SAVE STRATEGY: the form is submitted once its required fields are filled
handleSaveGoal ==
    /\ pc = "running" /\ showGoalModal
    /\ RequiredText(goalName) /\ RequiredNumber(goalTarget)
    /\ goals' = IF editingGoal # NoGoal THEN ReplaceGoal(goals, goalData)
                ELSE goals \o <<goalData>>
    /\ uuids' = IF editingGoal # NoGoal THEN uuids ELSE uuids + 1
    /\ showGoalModal' = FALSE
    /\ PersistEffect(transactions, goals')
    /\ last' = Op("handleSaveGoal", goalData.id \in GoalIds \/ editingGoal = NoGoal)
    /\ UNCHANGED <<editingGoal, goalName, goalTarget, goalCurrent, goalColor>>
    /\ UNCHANGED <<pc, transactions, formVars, now, funded, opens, otherTab>>

\* the delete button of goal id
deleteGoal(id) ==
    /\ pc = "running"
    /\ goals' = RemoveId(goals, id)
    /\ PersistEffect(transactions, goals')
    /\ last' = Op("deleteGoal", id \in GoalIds)
    /\ UNCHANGED <<pc, transactions, formVars, modalVars, uuids, now, funded, opens, otherTab>>

\* what prompt() returns: null when cancelled, else the text typed
PromptNull == [cancel |-> TRUE, text |-> <<>>]
PromptText(text) == [cancel |-> FALSE, text |-> text]

\* !val || isNaN(parseFloat(val))
FundsRejected(val) == val.cancel \/ val.text = <<>> \/ isNaN(parseFloat(val.text))

\* { ...g, current: Math.min(g.target, g.current + parseFloat(val)) }
Contribute(g, val) == [g EXCEPT !.current = MathMin(g.target, Add(g.current, parseFloat(val.text)))]

\* CONTRIBUTE on goal id, val being the answer to the prompt
addGoalFunds(id, val) ==
    /\ pc = "running"
    /\ IF FundsRejected(val)
       THEN /\ last' = Op("addGoalFunds", FALSE)
            /\ UNCHANGED <<goals, storage, funded>>
       ELSE /\ funded < MaxFunds
            /\ goals' = [i \in 1..Len(goals) |->
                            IF goals[i].id = id THEN Contribute(goals[i], val) ELSE goals[i]]
            /\ PersistEffect(transactions, goals')
            /\ funded' = funded + 1
            /\ last' = Op("addGoalFunds", TRUE)
    /\ UNCHANGED <<pc, transactions, formVars, modalVars, uuids, now, opens, otherTab>>

----------------------------------------------------------------------------------------------------------------------------------------
(* What the user types and picks *)

DescriptionInputs == {"", "rent"}
AmountInputs == {<<"0">>, <<"-", "5">>, <<"4", "0">>, <<"1", "e">>}
\* positions of the CLASS options the user picks
CategoryChoices == {1, 2}
GoalNameInputs == {"Trip"}
GoalTargetInputs == {<<"1", "0", "0", "0">>}
GoalCurrentInputs == {<<"9", "0", "0">>}
\* positions of the BRAND IDENTITY buttons the user picks
ColorChoices == {1}
PromptAnswers ==
    {PromptNull} \cup
    {PromptText(t) : t \in {<<>>, <<"a", "b", "c">>, <<"0">>, <<"-", "5">>,
                            <<"5", "0", "0">>, <<"4", "0", "0", "0", "0", "0">>,
                            InfinityText, <<"-">> \o InfinityText}}
\* the answers given while the goal modal is in use
ModalPromptAnswers ==
    {PromptNull, PromptText(<<"5", "0", "0">>), PromptText(<<"-">> \o InfinityText)}

\* the answers given while two tabs are open
TabPromptAnswers == {PromptText(<<"5", "0", "0">>), PromptText(<<"-">> \o InfinityText)}

\* a step of the entry form or of the transaction list
LedgerStep(descriptions, amounts, options) ==
    \/ OpenForm
    \/ CloseForm
    \/ \E kind \in {"expense", "income"} : SetType(kind)
    \/ \E text \in descriptions : SetDescription(text)
    \/ \E raw \in amounts : SetAmount(raw)
    \/ \E i \in options : SetCategory(i)
    \/ handleAdd
    \/ \E id \in IssuedIds : deleteTransaction(id)

\* a step of the goal modal, or the deletion of a goal
GoalStep(names, targets, currents, colors) ==
    \/ openGoalModalNew
    \/ \E i \in 1..Len(goals) : openGoalModalEdit(i)
    \/ CloseGoalModal
    \/ \E text \in names : SetGoalName(text)
    \/ \E raw \in targets : SetGoalTarget(raw)
    \/ \E raw \in currents : SetGoalCurrent(raw)
    \/ \E i \in colors : SetGoalColor(i)
    \/ handleSaveGoal
    \/ \E id \in GoalIds : deleteGoal(id)

\* CONTRIBUTE on one of the goal cards
FundsStep(answers) == \E id \in GoalIds, val \in answers : addGoalFunds(id, val)

\* the ledger side alone: the goals stay as loaded
NextLedger ==
    \/ loadSnapshot
    \/ LedgerStep(DescriptionInputs, AmountInputs, CategoryChoices)
SpecLedger == Init /\ [][NextLedger]_vars

\* the goals side alone: no transaction is recorded
NextGoals ==
    \/ loadSnapshot
    \/ GoalStep(GoalNameInputs, GoalTargetInputs, GoalCurrentInputs, ColorChoices)
    \/ (funded < MaxModalFunds /\ FundsStep(ModalPromptAnswers))
SpecGoals == Init /\ [][NextGoals]_vars

\* the goal cards alone: goals are deleted and contributed to, never edited
NextFunds ==
    \/ loadSnapshot
    \/ \E id \in GoalIds : deleteGoal(id)
    \/ FundsStep(PromptAnswers)
SpecFunds == Init /\ [][NextFunds]_vars

\* what is typed into the goal modal when goals are drawn up
FormNameInputs == {"", "Trip"}
FormTargetInputs == {<<"0">>, <<"-", "5">>, <<"1", "0", "0", "0">>, <<"1", "e">>}
FormCurrentInputs == {<<"-", "5">>, <<"2", "0", "0", "0">>, <<"a", "b", "c">>}

\* the goal modal alone: goals are drawn up, edited and deleted
NextGoalForm ==
    \/ loadSnapshot
    \/ GoalStep(FormNameInputs, FormTargetInputs, FormCurrentInputs, ColorChoices)
SpecGoalForm == Init /\ [][NextGoalForm]_vars

\* the ledger over the days: one memo and one amount
NextSeries ==
    \/ loadSnapshot
    \/ LedgerStep({"rent"}, {<<"2", "5", "0">>}, CategoryChoices)
    \/ \E day \in ClockDays : PassDays(day)
SpecSeries == Init /\ [][NextSeries]_vars

\* two tabs: in the tab in front a transaction is recorded or a goal is
\* contributed to
NextTabs ==
    \/ loadSnapshot
    \/ SwitchTab
    \/ OpenForm
    \/ SetDescription("rent")
    \/ SetAmount(<<"4", "0">>)
    \/ (uuids < MaxTabUuid /\ handleAdd)
    \/ (funded < MaxTabFunds /\ FundsStep(TabPromptAnswers))
SpecTabs == Init /\ [][NextTabs]_vars

\* the whole program: both sides and the clock.  SpecLedger and SpecGoals are
\* its behaviours in which one side stays idle.
Next ==
    \/ loadSnapshot
    \/ Tick
    \/ LedgerStep(DescriptionInputs, AmountInputs, CategoryChoices)
    \/ GoalStep(GoalNameInputs, GoalTargetInputs, GoalCurrentInputs, ColorChoices)
    \/ FundsStep(PromptAnswers)
Spec == Init /\ [][Next]_vars

----------------------------------------------------------------------------
(* Claims *)

TxIds == {transactions[i].id : i \in 1..Len(transactions)}

\* the text stored under key is the JSON of the collection coll
StoredIs(key, coll) == storage[key].kind = "array" /\ storage[key].items = coll

\* C1: once an operation has completed, the value stored under the
\* transactions key equals the transaction collection in memory and the value
\* stored under the goals key equals the goal collection in memory.
WriteThrough ==
    pc = "running" => StoredIs(TxKey, transactions) /\ StoredIs(GoalsKey, goals)

\* C2: a reload that follows an addTransaction into the empty collection
\* mounts, and the collection it loads is exactly the record that was added,
\* every field as it was created.
RoundTrip ==
    [][(loadSnapshot /\ last.op = "handleAdd" /\ last.ok /\ Len(transactions) = 1)
          => (pc' = "running" /\ transactions' = transactions)]_vars

\* a reload has read back the one transaction that was recorded
RoundTripDone ==
    /\ pc = "running" /\ last = Op("loadSnapshot", TRUE)
    /\ Len(transactions) = 1
    /\ transactions[1].amount = Num(40)
    /\ transactions[1].description = "rent"

\* the numbers a contribution can carry: what parseFloat makes of the answers
ContributedAmounts ==
    {parseFloat(val.text) : val \in {v \in PromptAnswers : ~FundsRejected(v)}}

\* x <= y for a finite y
AtMost(x, y) ==
    \/ (x.t = "Infinity" /\ x.v < 0 /\ y.t = "number")
    \/ (x.t = "number" /\ y.t = "number" /\ x.v <= y.v)

\* C3: an accepted contribution leaves the goal it targets with
\* currentAmount = min(targetAmount, currentAmount + amount), so at most
\* targetAmount, and every other goal as it was.
ContributionClamped ==
    [][funded' # funded =>
         \E id \in GoalIds, a \in ContributedAmounts :
            /\ Len(goals') = Len(goals)
            /\ \A i \in 1..Len(goals) :
                  IF goals[i].id # id THEN goals'[i] = goals[i]
                  ELSE LET sum == Add(goals[i].current, a)
                       IN  /\ goals'[i].target = goals[i].target
                           /\ AtMost(goals'[i].current, goals'[i].target)
                           /\ goals'[i].current =
                                 IF AtMost(sum, goals[i].target) THEN sum
                                 ELSE goals[i].target]_vars

\* the answers that are no positive number: cancelled, empty, not numeric,
\* zero or negative
NotPositive(val) ==
    \/ val.cancel
    \/ parseFloat(val.text).t = "NaN"
    \/ (parseFloat(val.text).t = "number" /\ parseFloat(val.text).v <= 0)
    \/ (parseFloat(val.text).t = "Infinity" /\ parseFloat(val.text).v < 0)

\* C4: a contribution whose amount is zero, negative or not numeric changes
\* the currentAmount of no goal.
NonPositiveContributionIgnored ==
    [][\A id \in GoalIds, val \in PromptAnswers :
         (NotPositive(val) /\ addGoalFunds(id, val)) => goals' = goals]_vars

\* C5: every transaction of the collection has an amount > 0.
AmountsPositive ==
    \A i \in 1..Len(transactions) :
       transactions[i].amount.t = "number" /\ transactions[i].amount.v > 0

\* C6: the category of every transaction is one of the categories of its kind.
CategoryOfKind ==
    \A i \in 1..Len(transactions) :
       \E j \in 1..Len(CATEGORIES[transactions[i].type]) :
          CATEGORIES[transactions[i].type][j] = transactions[i].category

\* an income and an expense were recorded after the kind was toggled and a
\* category other than the first was chosen
CategoryOfKindMixed ==
    /\ Len(transactions) = 2
    /\ transactions[1].type = "income" /\ transactions[1].category = "Freelance"
    /\ transactions[2].type = "expense"

\* C7: deleting a transaction id that is not in the collection does not fail
\* and leaves the collection and both stored values as they were.
DeleteAbsentIsNoOp ==
    [][\A id \in IssuedIds :
         (id \notin TxIds /\ deleteTransaction(id))
            => (pc' = "running" /\ transactions' = transactions /\ storage' = storage)]_vars

\* a delete of an id that is gone ran while a transaction was held
DeleteAbsentDone ==
    /\ last = Op("deleteTransaction", FALSE)
    /\ Len(transactions) = 1

\* C8: saving the modal opened on a goal that is in the collection replaces
\* that goal's fields where it stands: same length, same ids at the same
\* positions, no id twice, every other goal unchanged.
UpsertInPlace ==
    [][(handleSaveGoal /\ editingGoal # NoGoal /\ editingGoal.id \in GoalIds) =>
         /\ Len(goals') = Len(goals)
         /\ \A i \in 1..Len(goals) :
               /\ goals'[i].id = goals[i].id
               /\ goals[i].id # editingGoal.id => goals'[i] = goals[i]
               /\ goals[i].id = editingGoal.id =>
                     /\ goals'[i].name = goalName
                     /\ goals'[i].target = parseFloat(goalTarget)
                     /\ goals'[i].current =
                           IF goalCurrent = <<>> THEN Num(0) ELSE parseFloat(goalCurrent)
                     /\ goals'[i].color = goalColor
         /\ \A i, j \in 1..Len(goals') : goals'[i].id = goals'[j].id => i = j]_vars

\* the second seed goal was edited: renamed and re-targeted where it stood
UpsertInPlaceDone ==
    /\ last = Op("handleSaveGoal", TRUE)
    /\ Len(goals) = 2
    /\ goals[1] = SeedGoals[1]
    /\ goals[2].id = 2 /\ goals[2].name = "Trip" /\ goals[2].target = Num(1000)

\* stored text that does not parse as an array of records
Malformed(saved) == saved.kind = "garbage" \/ saved.kind = "object"

\* C9: loadSnapshot raises no error on malformed stored text: it mounts, with
\* no transaction when the transactions text is malformed and with the two
\* seed goals when the goals text is malformed.
MalformedLoadsDefaults ==
    [][loadSnapshot =>
         /\ pc' = "running"
         /\ Malformed(storage[TxKey]) => transactions' = <<>>
         /\ Malformed(storage[GoalsKey]) => goals' = SeedGoals]_vars

RECURSIVE SumOfKind(_, _)
\* the sum of the amounts of the transactions of kind at the positions in S
SumOfKind(S, kind) ==
    IF S = {} THEN 0
    ELSE LET i == CHOOSE x \in S : TRUE
         IN  (IF transactions[i].type = kind THEN transactions[i].amount.v ELSE 0)
             + SumOfKind(S \ {i}, kind)

\* C10: income is the sum of the income amounts, expense the sum of the
\* expense amounts, balance their difference; all three are 0 when there is
\* no transaction.
TotalsCorrect ==
    LET all == 1..Len(transactions)
    IN  /\ totalIncome = Num(SumOfKind(all, "income"))
        /\ totalExpense = Num(SumOfKind(all, "expense"))
        /\ balance = Num(SumOfKind(all, "income") - SumOfKind(all, "expense"))
        /\ transactions = <<>> =>
              totalIncome = Num(0) /\ totalExpense = Num(0) /\ balance = Num(0)

\* an income of 40 and an expense of 40 are held: balance 0, totals 40
TotalsMixed ==
    /\ Len(transactions) = 2
    /\ transactions[1].type = "income" /\ transactions[1].amount = Num(40)
    /\ transactions[2].type = "expense" /\ transactions[2].amount = Num(40)

RECURSIVE SumOnDay(_, _, _)
\* the sum of the amounts of the transactions of a kind dated on the day day
SumOnDay(txs, kind, day) ==
    IF txs = <<>> THEN Num(0)
    ELSE LET init == SubSeq(txs, 1, Len(txs) - 1)
             t    == txs[Len(txs)]
         IN  IF t.type = kind /\ t.date = day
             THEN Add(SumOnDay(init, kind, day), t.amount)
             ELSE SumOnDay(init, kind, day)

\* lineData was computed in this state: the page was mounted, or the
\* transactions changed, after the clock last moved
SeriesFresh == pc = "running" /\ last.op # "PassDays"

\* C11: the line chart's slot i of 7 (oldest first) holds, for income and for
\* expense, the sum of the amounts of the transactions of that kind dated on
\* exactly the calendar day 7 - i days before the reference date, 0 when
\* there is none; a transaction dated outside the window is in no slot.
DailySeriesByCalendarDay ==
    SeriesFresh =>
        \A i \in 1..7 :
            /\ lineData(transactions, now).inflow[i] =
                   SumOnDay(transactions, "income", now - (7 - i))
            /\ lineData(transactions, now).outflow[i] =
                   SumOnDay(transactions, "expense", now - (7 - i))

\* the positions of the transactions of a kind that are the first of their
\* category among the transactions of that kind
FirstOfCategory(kind) ==
    {i \in 1..Len(transactions) :
        /\ transactions[i].type = kind
        /\ \A j \in 1..(i - 1) :
              ~(transactions[j].type = kind
                /\ transactions[j].category = transactions[i].category)}

RECURSIVE SumOfCategory(_, _, _)
\* the sum of the amounts of the transactions of a kind and a category at the
\* positions in S
SumOfCategory(S, kind, cat) ==
    IF S = {} THEN 0
    ELSE LET i == CHOOSE x \in S : TRUE
         IN  (IF transactions[i].type = kind /\ transactions[i].category = cat
              THEN transactions[i].amount.v ELSE 0)
             + SumOfCategory(S \ {i}, kind, cat)

\* C12: the breakdown of a kind has one entry per category occurring among
\* the transactions of that kind, in the order in which the categories first
\* appear among them in the collection; an entry's value is the sum of the
\* amounts of the transactions of that kind and category, and the other
\* kind contributes nothing.
CategoryBreakdownCorrect ==
    \A kind \in {"expense", "income"} :
        LET chart == doughnutData(transactions, kind)
            first == FirstOfCategory(kind)
        IN  /\ Len(chart.labels) = Cardinality(first)
            /\ Len(chart.data) = Len(chart.labels)
            /\ \A k \in 1..Len(chart.labels) :
                  /\ \E i \in first :
                        /\ Cardinality({j \in first : j < i}) = k - 1
                        /\ chart.labels[k] = transactions[i].category
                  /\ chart.data[k] =
                        Num(SumOfCategory(1..Len(transactions), kind, chart.labels[k]))

\* two expenses are held, the newer in the second expense category and the
\* older in the first: the breakdown lists the second category first
BreakdownInCollectionOrder ==
    /\ Len(transactions) = 2
    /\ transactions[1].type = "expense" /\ transactions[2].type = "expense"
    /\ transactions[1].category = CATEGORIES.expense[2]
    /\ transactions[2].category = CATEGORIES.expense[1]
    /\ doughnutData(transactions, "expense").labels =
          <<CATEGORIES.expense[2], CATEGORIES.expense[1]>>

\* round(100 * current / target) brought into 0..100
ClampedPercent(current, target) ==
    LET p == RoundHalfUp(100 * current, target)
    IN  IF p < 0 THEN 0 ELSE IF p > 100 THEN 100 ELSE p

\* C13: the percentage shown for a goal is round(100 * currentAmount /
\* targetAmount) brought into the range 0..100, and it is 0, never NaN or
\* an infinity, when targetAmount is 0.
GoalProgressClamped ==
    \A i \in 1..Len(goals) :
        LET goal == goals[i]
            p    == progressPercent(goal)
        IN  /\ p.t = "number"
            /\ p.v \in 0..100
            /\ goal.target = Num(0) => p = Num(0)
            /\ (goal.target.t = "number" /\ goal.target.v # 0 /\ goal.current.t = "number")
                  => p = Num(ClampedPercent(goal.current.v, goal.target.v))

\* C14: every goal held has currentAmount >= 0: a goal saved with reserves
\* that are omitted or no valid non-negative number holds 0, and no
\* contribution makes currentAmount negative.
CurrentNonNegative ==
    \A i \in 1..Len(goals) :
        goals[i].current.t = "number" /\ goals[i].current.v >= 0

\* C15: every goal held has a non-empty name and targetAmount > 0: a goal
\* with an empty name or with a target that is zero, negative or not finite
\* is not saved.
NameAndTargetValid ==
    \A i \in 1..Len(goals) :
        /\ goals[i].name # ""
        /\ goals[i].target.t = "number" /\ goals[i].target.v > 0

\* C16: of two tabs on one localStorage, the one that completes a mutation
\* leaves both stored collections equal to its own collections in memory,
\* whatever the other tab had stored, in the collection it did not touch too.
LastWriteWins ==
    [][(otherTab' = otherTab /\ pc = "running" /\ pc' = "running"
          /\ (transactions' # transactions \/ goals' # goals))
        => (/\ storage'[TxKey] = [kind |-> "array", items |-> transactions']
            /\ storage'[GoalsKey] = [kind |-> "array", items |-> goals'])]_vars

\* C17: the seed goals stand in only for a goals value that was never
\* stored: once the page is mounted and every goal is deleted, the goal
\* collection stays empty, over a reload too; the seeds do not come back.
SeedsNotRecreated ==
    [][(pc = "running" /\ goals = <<>>) => goals' = <<>>]_vars

\* every goal was deleted and the page reloaded: no goal is held
ReloadedEmpty ==
    /\ last = Op("loadSnapshot", TRUE)
    /\ pc = "running"
    /\ goals = <<>>
    /\ storage[GoalsKey] = [kind |-> "array", items |-> <<>>]

====
